---- MODULE Spec2Model ----
(***************************************************************************)
(* The photo-frame client (static/app.js): the traversal order and its     *)
(* cursor, the repeating timer, the motion-gate query of every automatic   *)
(* tick, the manual navigation that bypasses it, the image element with    *)
(* its metadata fetches, and the weather fetch (getCurrentWeather).        *)
(*                                                                         *)
(* JavaScript arrays are 0-based; `order` is kept as a TLA+ sequence and   *)
(* read through at(a, i), which is a[i] of the script.  The script is      *)
(* single threaded: every handler runs to completion or to its first       *)
(* await, so every action below is one handler or one continuation.        *)
(***************************************************************************)
EXTENDS Integers, Sequences, FiniteSets, TLC

VARIABLES
    count,        \* app.js:6   number of images
    order,        \* app.js:9   shuffled order
    pos,          \* app.js:10  position within order
    timer,        \* app.js:11  handle of the interval started last (NoTimer = null)
    INTERVAL_MS,  \* app.js:5
    status,       \* statusEl.textContent
    idx,          \* idxEl.textContent: the index on display (img.src is set with it)
    playBtn,      \* playBtn.style.display
    pauseBtn,     \* pauseBtn.style.display
    intervals,    \* the browser's running setInterval timers: records [id, ms]
    inflight,     \* pending fetches of /should_load_next: the p of each showByPos(p)
    img,          \* the image element and the metadata texts: the index img.src asks
                  \* for, the state of that load, the pending calls of fetchMeta and
                  \* the index whose date and filename are displayed
    gate,         \* what a fetch of /should_load_next that settles now settles with
    ticks,        \* history: timer ticks so far, modulo the collection size
    clean,        \* history: only permitted ticks so far, after the first image
    aux           \* auxiliary: the handler that ran last, or the inputs given to the
                  \* traversal engine alone, or the size of the collection on the
                  \* server, or the state of a call of getCurrentWeather

vars == <<count, order, pos, timer, INTERVAL_MS, status, idx, playBtn, pauseBtn,
          intervals, inflight, img, gate, ticks, clean, aux>>

app    == <<count, order, pos, timer, INTERVAL_MS, status, idx, playBtn, pauseBtn,
            intervals, inflight, img>>

----------------------------------------------------------------------------
(* Bounds *)

MaxCount == 2       \* collection sizes 0..MaxCount of the page

MaxOrder == 4       \* collection sizes 0..MaxOrder of the traversal engine alone

MaxInFlight == 2    \* gate queries pending at once

MaxDelta == 4       \* step widths -MaxDelta..MaxDelta

MaxMeta == 2        \* calls of fetchMeta pending at once

(* Encodings of values that are not numbers in the script *)

NoTimer == 0        \* timer = null (falsy, as in `if (timer)`)

NoIndex == -1       \* nothing displayed yet

Undefined == -2     \* a[i] outside the array

DefaultIntervalMs == 10000

IntervalChoices == {0, 5000, DefaultIntervalMs}   \* data-interval values; 0 stands for a falsy one

GateStates == {"open", "closed", "down"}

----------------------------------------------------------------------------
(* Arrays *)

at(a, i) == IF i \in 0..(Len(a) - 1) THEN a[i + 1] ELSE Undefined

range(n) == [i \in 1..n |-> i - 1]

(* The exchange with its first half only: a[i] = a[j]. *)
swap_Overwrite(a, i, j) == [a EXCEPT ![i + 1] = a[j + 1]]

swap(a, i, j) == [a EXCEPT ![i + 1] = a[j + 1], ![j + 1] = a[i + 1]]

RECURSIVE shuffleFrom(_, _)
(* The loop of shuffle from index i downwards: every array the draws of j
   in 0..i can leave behind. *)
shuffleFrom(a, i) ==
    IF i > 0
    THEN UNION { shuffleFrom(swap(a, i, j), i - 1) : j \in 0..i }
    ELSE {a}

shuffle(a) == shuffleFrom(a, Len(a) - 1)

indexOf(a, v) ==
    IF \E i \in 0..(Len(a) - 1) : a[i + 1] = v
    THEN CHOOSE i \in 0..(Len(a) - 1) :
            a[i + 1] = v /\ \A k \in 0..(i - 1) : a[k + 1] # v
    ELSE -1

(* buildOrder that leaves the cursor where it was when an index is kept. *)
buildOrder_KeepsPos(keepIndex) ==
    { [order |-> newOrder, pos |-> IF keepIndex = <<>> THEN 0 ELSE pos]
      : newOrder \in shuffle(range(count)) }

(* keepIndex is <<>> for null and <<k>> for the number k. *)
buildOrder(keepIndex) ==
    { [order |-> newOrder,
       pos   |-> IF keepIndex = <<>>
                 THEN 0
                 ELSE LET found == indexOf(newOrder, keepIndex[1])
                      IN  IF found >= 0 THEN found ELSE 0]
      : newOrder \in shuffle(range(count)) }

----------------------------------------------------------------------------
(* Stepping *)

(* The % of JavaScript: the remainder has the sign of the dividend. *)
rem(a, n) == IF a >= 0 THEN a % n ELSE -((-a) % n)

(* p % n alone, without the second remainder. *)
safeModulo_Remainder(p, n) == rem(p, n)

(* A cursor that stops at both ends instead of wrapping. *)
safeModulo_Clamp(p, n) == IF p < 0 THEN 0 ELSE IF p >= n THEN n - 1 ELSE p

(* ((p % n) + n) % n *)
safeModulo(p, n) == rem(rem(p, n) + n, n)

(* loadImage with pos = p, without the wraparound. *)
loadImage_Unwrapped(p, st) ==
    IF count = 0 \/ Len(order) = 0
    THEN [pos |-> pos, idx |-> idx, status |-> "no files", img |-> img]
    ELSE [pos |-> p, idx |-> at(order, p), status |-> st,
          img |-> [img EXCEPT !.src = at(order, p), !.load = "pending"]]

(* loadImage(p) called when the status text is st: the cursor, the index
   on display, the status text and the image element it leaves.  Setting
   img.src starts the load of that image and drops the one before, and the
   onload handler set with it is the one for this index. *)
loadImage(p, st) ==
    IF count = 0 \/ Len(order) = 0
    THEN [pos |-> pos, idx |-> idx, status |-> "no files", img |-> img]
    ELSE LET np == safeModulo(p, Len(order))
         IN  [pos |-> np, idx |-> at(order, np), status |-> st,
              img |-> [img EXCEPT !.src = at(order, np), !.load = "pending"]]

----------------------------------------------------------------------------
(* Timer *)

setInterval(running, ms) ==
    LET ids == {t.id : t \in running}
        id  == CHOOSE i \in 1..(Cardinality(ids) + 1) : i \notin ids
    IN  [id |-> id, ms |-> ms]

clearInterval(running, id) == {t \in running : t.id # id}

stop ==
    [timer     |-> NoTimer,
     intervals |-> IF timer # NoTimer THEN clearInterval(intervals, timer) ELSE intervals,
     status    |-> "paused",
     playBtn   |-> "",
     pauseBtn  |-> "none"]

(* start() without its stop(): an interval that runs keeps running. *)
start_KeepsOld(ms) ==
    LET t == setInterval(intervals, ms)
    IN  [timer     |-> t.id,
         intervals |-> intervals \cup {t},
         status    |-> "playing",
         playBtn   |-> "none",
         pauseBtn  |-> ""]

(* start() when INTERVAL_MS is ms. *)
start(ms) ==
    LET s == stop
        t == setInterval(s.intervals, ms)
    IN  [timer     |-> t.id,
         intervals |-> s.intervals \cup {t},
         status    |-> "playing",
         playBtn   |-> "none",
         pauseBtn  |-> ""]

----------------------------------------------------------------------------
(* The gate query *)

(* showByPos that goes on to loadImage when load_next is false. *)
showByPos_DeniedAdvances(p, answer) ==
    CASE answer = "down"   -> [pos |-> pos, idx |-> idx, status |-> status, img |-> img]
      [] answer = "closed" -> loadImage(p, "auto paused")
      [] answer = "open"   -> loadImage(p, "playing")

(* showByPos without its setStatus('playing'). *)
showByPos_KeepsStatus(p, answer) ==
    CASE answer = "down"   -> [pos |-> pos, idx |-> idx, status |-> status, img |-> img]
      [] answer = "closed" -> [pos |-> pos, idx |-> idx, status |-> "auto paused", img |-> img]
      [] answer = "open"   -> loadImage(p, status)

(* showByPos that treats a failed query as a permission. *)
showByPos_FailureAdvances(p, answer) ==
    CASE answer = "down"   -> loadImage(p, "playing")
      [] answer = "closed" -> [pos |-> pos, idx |-> idx, status |-> "auto paused", img |-> img]
      [] answer = "open"   -> loadImage(p, "playing")

(* showByPos(p) from the point where its fetch of /should_load_next
   settles with `answer`: "down" is a rejected fetch or a status that is
   not ok, "closed" is load_next false, "open" is load_next true. *)
showByPos(p, answer) ==
    CASE answer = "down"   -> [pos |-> pos, idx |-> idx, status |-> status, img |-> img]
      [] answer = "closed" -> [pos |-> pos, idx |-> idx, status |-> "auto paused", img |-> img]
      [] answer = "open"   -> loadImage(p, "playing")

(* next(), the timer's callback: showByPos(pos + 1) up to its fetch. *)
next == Append(inflight, pos + 1)

----------------------------------------------------------------------------
(* The page after the script has run (lines 3-214): the order is built,
   showByPos(0) has issued its gate query and start() has run.  Nothing is
   displayed yet, the date is the dash.  Spec, FairSpec and SpecCounted
   follow the handlers of the script and leave the load of the image
   pending; SpecMeta adds the events of the image element. *)

InitPage ==
    /\ count \in 0..MaxCount
    /\ INTERVAL_MS \in IntervalChoices \ {0}
    /\ \E b \in (IF count > 0 THEN buildOrder(<<>>) ELSE {[order |-> <<>>, pos |-> 0]}) :
          /\ order = b.order
          /\ pos = b.pos
    /\ idx = NoIndex
    /\ inflight = <<0>>
    /\ img = [src |-> NoIndex, load |-> "", fetchMeta |-> <<>>, dateEl |-> NoIndex]
    /\ timer = setInterval({}, INTERVAL_MS).id
    /\ intervals = {setInterval({}, INTERVAL_MS)}
    /\ status = "playing"
    /\ playBtn = "none"
    /\ pauseBtn = ""
    /\ gate \in GateStates
    /\ ticks = 0
    /\ clean = TRUE

Init ==
    /\ InitPage
    /\ aux = [phase |-> "app", last |-> "load", answer |-> "", was |-> ""]

(* A running interval fires. *)
Tick ==
    /\ intervals # {}
    /\ Len(inflight) < MaxInFlight
    /\ inflight' = next
    /\ UNCHANGED <<count, order, pos, timer, INTERVAL_MS, status, idx, playBtn,
                   pauseBtn, intervals, img, gate>>

Remove(s, i) == [k \in 1..(Len(s) - 1) |-> IF k < i THEN s[k] ELSE s[k + 1]]

(* The fetch of the i-th pending showByPos settles and showByPos runs to
   its end. *)
GateResponse(i) ==
    /\ i \in 1..Len(inflight)
    /\ inflight' = Remove(inflight, i)
    /\ LET r == showByPos(inflight[i], gate)
       IN  /\ pos' = r.pos
           /\ idx' = r.idx
           /\ status' = r.status
           /\ img' = r.img
    /\ UNCHANGED <<count, order, timer, INTERVAL_MS, playBtn, pauseBtn, intervals,
                   gate>>

(* The next button wired to next(), which asks the gate first. *)
next_btn_ViaGate ==
    /\ Len(inflight) < MaxInFlight
    /\ inflight' = Append(inflight, pos + 1)
    /\ UNCHANGED <<count, order, pos, timer, INTERVAL_MS, status, idx, playBtn,
                   pauseBtn, intervals, img, gate>>

(* The next button and the right arrow key. *)
next_btn ==
    LET r == loadImage(pos + 1, status)
    IN  /\ pos' = r.pos
        /\ idx' = r.idx
        /\ status' = r.status
        /\ img' = r.img
        /\ UNCHANGED <<count, order, timer, INTERVAL_MS, playBtn, pauseBtn, intervals,
                       inflight, gate>>

(* The prev button and the left arrow key. *)
prev_btn ==
    LET r == loadImage(pos - 1, status)
    IN  /\ pos' = r.pos
        /\ idx' = r.idx
        /\ status' = r.status
        /\ img' = r.img
        /\ UNCHANGED <<count, order, timer, INTERVAL_MS, playBtn, pauseBtn, intervals,
                       inflight, gate>>

Apply(s) ==
    /\ timer' = s.timer
    /\ intervals' = s.intervals
    /\ status' = s.status
    /\ playBtn' = s.playBtn
    /\ pauseBtn' = s.pauseBtn

(* A click on the pause button, which is there to click while displayed. *)
ClickPause ==
    /\ pauseBtn # "none"
    /\ Apply(stop)
    /\ UNCHANGED <<count, order, pos, INTERVAL_MS, idx, inflight, img, gate>>

ClickPlay ==
    /\ playBtn # "none"
    /\ Apply(start(INTERVAL_MS))
    /\ UNCHANGED <<count, order, pos, INTERVAL_MS, idx, inflight, img, gate>>

(* The space key. *)
KeySpace ==
    /\ Apply(IF timer # NoTimer THEN stop ELSE start(INTERVAL_MS))
    /\ UNCHANGED <<count, order, pos, INTERVAL_MS, idx, inflight, img, gate>>

(* The dropdown handler without its `if (timer) start()`. *)
SelectInterval_NoRestart(newInterval) ==
    /\ IF newInterval # 0
       THEN INTERVAL_MS' = newInterval
       ELSE UNCHANGED INTERVAL_MS
    /\ UNCHANGED <<timer, intervals, status, playBtn, pauseBtn>>
    /\ UNCHANGED <<count, order, pos, idx, inflight, img, gate>>

(* A click on an entry of the interval dropdown. *)
SelectInterval(newInterval) ==
    /\ IF newInterval # 0
       THEN /\ INTERVAL_MS' = newInterval
            /\ IF timer # NoTimer
               THEN Apply(start(newInterval))
               ELSE UNCHANGED <<timer, intervals, status, playBtn, pauseBtn>>
       ELSE UNCHANGED <<INTERVAL_MS, timer, intervals, status, playBtn, pauseBtn>>
    /\ UNCHANGED <<count, order, pos, idx, inflight, img, gate>>

(* The motion sensor's side: motion, the timeout, the server going away. *)
GateChange(g) ==
    /\ g # gate
    /\ gate' = g
    /\ UNCHANGED app

AnyGateResponse == \E i \in 1..MaxInFlight : GateResponse(i)

AnySelectInterval == \E v \in IntervalChoices : SelectInterval(v)

AnyGateChange == \E g \in GateStates : GateChange(g)

(* The record of a handler: its name, what the gate answered (for the
   continuation of showByPos) or whether the period changed (for the
   dropdown), and the status text it found. *)
Log(handler, answer) ==
    [phase |-> "app", last |-> handler, answer |-> answer, was |-> status]

Next ==
    \/ Tick /\ aux' = Log("next", "") /\ UNCHANGED <<ticks, clean>>
    \/ AnyGateResponse /\ aux' = Log("showByPos", gate) /\ UNCHANGED <<ticks, clean>>
    \/ next_btn /\ aux' = Log("next_btn", "") /\ UNCHANGED <<ticks, clean>>
    \/ prev_btn /\ aux' = Log("prev_btn", "") /\ UNCHANGED <<ticks, clean>>
    \/ ClickPause /\ aux' = Log("pause", "") /\ UNCHANGED <<ticks, clean>>
    \/ ClickPlay /\ aux' = Log("play", "") /\ UNCHANGED <<ticks, clean>>
    \/ KeySpace /\ aux' = Log("space", "") /\ UNCHANGED <<ticks, clean>>
    \/ AnySelectInterval
          /\ aux' = Log("interval", IF INTERVAL_MS' # INTERVAL_MS THEN "changed" ELSE "same")
          /\ UNCHANGED <<ticks, clean>>
    \/ AnyGateChange /\ aux' = Log("gate", "") /\ UNCHANGED <<ticks, clean>>

Spec == Init /\ [][Next]_vars

(* The timer keeps firing while an interval runs, and a pending fetch
   settles. *)
FairSpec ==
    /\ Spec
    /\ WF_vars(Tick /\ aux' = Log("next", "") /\ UNCHANGED <<ticks, clean>>)
    /\ WF_vars(AnyGateResponse /\ aux' = Log("showByPos", gate) /\ UNCHANGED <<ticks, clean>>)

----------------------------------------------------------------------------
(* The same page with the ticks counted: `ticks` is the number of timer
   ticks modulo the collection size, `clean` says that the first image was
   on display before the first tick and that since then no query was denied
   or failed and nobody stepped by hand. *)

Modulus == IF count > 0 THEN count ELSE 1

NextCounted ==
    \/ Tick /\ ticks' = (ticks + 1) % Modulus /\ clean' = (clean /\ idx # NoIndex) /\ UNCHANGED aux
    \/ AnyGateResponse /\ clean' = (clean /\ gate = "open") /\ UNCHANGED <<ticks, aux>>
    \/ next_btn /\ clean' = FALSE /\ UNCHANGED <<ticks, aux>>
    \/ prev_btn /\ clean' = FALSE /\ UNCHANGED <<ticks, aux>>
    \/ ClickPause /\ UNCHANGED <<ticks, clean, aux>>
    \/ ClickPlay /\ UNCHANGED <<ticks, clean, aux>>
    \/ KeySpace /\ UNCHANGED <<ticks, clean, aux>>
    \/ AnySelectInterval /\ UNCHANGED <<ticks, clean, aux>>
    \/ AnyGateChange /\ UNCHANGED <<ticks, clean, aux>>

SpecCounted == Init /\ [][NextCounted]_vars

----------------------------------------------------------------------------
(* The same page with the events of the image element and the answers to
   fetchMeta, which the specifications above leave pending. *)

page == <<count, order, pos, timer, INTERVAL_MS, status, idx, playBtn, pauseBtn,
          intervals, inflight, gate>>

(* The load event of the image img.src asks for: the onload handler set by
   loadImage runs up to the fetch of fetchMeta(index). *)
ImageLoaded ==
    /\ img.load = "pending"
    /\ Len(img.fetchMeta) < MaxMeta
    /\ img' = [img EXCEPT !.load = "load", !.fetchMeta = Append(@, img.src)]
    /\ UNCHANGED page

(* The image does not load: the script sets no onerror handler. *)
ImageError ==
    /\ img.load = "pending"
    /\ img' = [img EXCEPT !.load = "error"]
    /\ UNCHANGED page

(* The i-th pending fetchMeta settles and the onload handler that awaits
   it runs to its end: with metadata it displays the date and the filename
   of the index it asked for, with null it displays the dashes. *)
MetaResponse(i, ok) ==
    /\ i \in 1..Len(img.fetchMeta)
    /\ img' = [img EXCEPT !.fetchMeta = Remove(@, i),
                          !.dateEl = IF ok THEN img.fetchMeta[i] ELSE NoIndex]
    /\ UNCHANGED page

AnyMetaResponse == \E i \in 1..MaxMeta, ok \in BOOLEAN : MetaResponse(i, ok)

NextMeta ==
    \/ Tick /\ UNCHANGED <<ticks, clean, aux>>
    \/ AnyGateResponse /\ UNCHANGED <<ticks, clean, aux>>
    \/ next_btn /\ UNCHANGED <<ticks, clean, aux>>
    \/ prev_btn /\ UNCHANGED <<ticks, clean, aux>>
    \/ ClickPause /\ UNCHANGED <<ticks, clean, aux>>
    \/ ClickPlay /\ UNCHANGED <<ticks, clean, aux>>
    \/ KeySpace /\ UNCHANGED <<ticks, clean, aux>>
    \/ AnySelectInterval /\ UNCHANGED <<ticks, clean, aux>>
    \/ AnyGateChange /\ UNCHANGED <<ticks, clean, aux>>
    \/ ImageLoaded /\ UNCHANGED <<ticks, clean, aux>>
    \/ ImageError /\ UNCHANGED <<ticks, clean, aux>>
    \/ AnyMetaResponse /\ UNCHANGED <<ticks, clean, aux>>

SpecMeta == Init /\ [][NextMeta]_vars

----------------------------------------------------------------------------
(* The page next to a collection that changes its size on the server:
   aux.files is the number of images the server holds, which is `count`
   when the page is rendered. *)

InitGrow ==
    /\ InitPage
    /\ aux = [phase |-> "grow", files |-> count]

(* Images are added to the collection or removed from it. *)
Grow(n) ==
    /\ n # aux.files
    /\ aux' = [aux EXCEPT !.files = n]
    /\ UNCHANGED <<app, gate, ticks, clean>>

AnyGrow == \E n \in 0..MaxCount : Grow(n)

NextGrow ==
    \/ Tick /\ UNCHANGED <<ticks, clean, aux>>
    \/ AnyGateResponse /\ UNCHANGED <<ticks, clean, aux>>
    \/ next_btn /\ UNCHANGED <<ticks, clean, aux>>
    \/ prev_btn /\ UNCHANGED <<ticks, clean, aux>>
    \/ ClickPause /\ UNCHANGED <<ticks, clean, aux>>
    \/ ClickPlay /\ UNCHANGED <<ticks, clean, aux>>
    \/ KeySpace /\ UNCHANGED <<ticks, clean, aux>>
    \/ AnySelectInterval /\ UNCHANGED <<ticks, clean, aux>>
    \/ AnyGateChange /\ UNCHANGED <<ticks, clean, aux>>
    \/ AnyGrow

(* The timer keeps firing while an interval runs, and a pending fetch
   settles. *)
SpecGrow ==
    /\ InitGrow
    /\ [][NextGrow]_vars
    /\ WF_vars(Tick /\ UNCHANGED <<ticks, clean, aux>>)
    /\ WF_vars(AnyGateResponse /\ UNCHANGED <<ticks, clean, aux>>)

----------------------------------------------------------------------------
(* The network calls of the client.  The page is the one of SpecMeta: its
   fetches of /should_load_next and of /meta/<index> are plain fetches,
   which end when the server answers or the connection fails, and nothing
   makes either happen.  Next to it runs one call of getCurrentWeather:
   aux.call is where the call stands, aux.timeout the timer set with
   setTimeout(() => controller.abort(), 8000) and aux.aborted the state of
   controller.signal. *)

InitNet ==
    /\ InitPage
    /\ aux = [phase |-> "net", call |-> "idle", timeout |-> "none", aborted |-> FALSE]

(* clearTimeout(timeout) of the finally block: a timer that has fired is
   left as it is. *)
clearTimeout(t) == IF t = "armed" THEN "cleared" ELSE t

(* getCurrentWeather(lat, lon) up to its await on fetch. *)
getCurrentWeather ==
    /\ aux.call \in {"idle", "returned", "thrown"}
    /\ aux' = [aux EXCEPT !.call = "fetching", !.timeout = "armed", !.aborted = FALSE]
    /\ UNCHANGED <<app, gate, ticks, clean>>

(* The fetch resolves: a response that is ok goes on to response.json(),
   any other one is thrown as an error through the finally block. *)
WeatherResponse(ok) ==
    /\ aux.call = "fetching"
    /\ ~aux.aborted
    /\ aux' = IF ok
              THEN [aux EXCEPT !.call = "json"]
              ELSE [aux EXCEPT !.call = "thrown", !.timeout = clearTimeout(@)]
    /\ UNCHANGED <<app, gate, ticks, clean>>

(* response.json() resolves and the function returns through the finally
   block. *)
WeatherJson ==
    /\ aux.call = "json"
    /\ ~aux.aborted
    /\ aux' = [aux EXCEPT !.call = "returned", !.timeout = clearTimeout(@)]
    /\ UNCHANGED <<app, gate, ticks, clean>>

(* The connection fails while the fetch or the body is awaited. *)
WeatherNetworkError ==
    /\ aux.call \in {"fetching", "json"}
    /\ ~aux.aborted
    /\ aux' = [aux EXCEPT !.call = "thrown", !.timeout = clearTimeout(@)]
    /\ UNCHANGED <<app, gate, ticks, clean>>

(* The timer set with setTimeout fires: controller.abort(). *)
WeatherTimeout ==
    /\ aux.timeout = "armed"
    /\ aux' = [aux EXCEPT !.timeout = "fired", !.aborted = TRUE]
    /\ UNCHANGED <<app, gate, ticks, clean>>

(* The aborted signal rejects what the function awaits, and the AbortError
   leaves through the finally block. *)
WeatherAborted ==
    /\ aux.call \in {"fetching", "json"}
    /\ aux.aborted
    /\ aux' = [aux EXCEPT !.call = "thrown", !.timeout = clearTimeout(@)]
    /\ UNCHANGED <<app, gate, ticks, clean>>

AnyWeatherResponse == \E ok \in BOOLEAN : WeatherResponse(ok)

NextNet ==
    \/ Tick /\ UNCHANGED <<ticks, clean, aux>>
    \/ AnyGateResponse /\ UNCHANGED <<ticks, clean, aux>>
    \/ next_btn /\ UNCHANGED <<ticks, clean, aux>>
    \/ prev_btn /\ UNCHANGED <<ticks, clean, aux>>
    \/ ClickPause /\ UNCHANGED <<ticks, clean, aux>>
    \/ ClickPlay /\ UNCHANGED <<ticks, clean, aux>>
    \/ KeySpace /\ UNCHANGED <<ticks, clean, aux>>
    \/ AnySelectInterval /\ UNCHANGED <<ticks, clean, aux>>
    \/ AnyGateChange /\ UNCHANGED <<ticks, clean, aux>>
    \/ ImageLoaded /\ UNCHANGED <<ticks, clean, aux>>
    \/ ImageError /\ UNCHANGED <<ticks, clean, aux>>
    \/ AnyMetaResponse /\ UNCHANGED <<ticks, clean, aux>>
    \/ getCurrentWeather
    \/ AnyWeatherResponse
    \/ WeatherJson
    \/ WeatherNetworkError
    \/ WeatherTimeout
    \/ WeatherAborted

(* The timers fire: the interval while it runs, the timeout of the weather
   call unless it is cleared, and an aborted signal rejects the fetch.  No
   answer of the network is taken for granted. *)
SpecNet ==
    /\ InitNet
    /\ [][NextNet]_vars
    /\ WF_vars(Tick /\ UNCHANGED <<ticks, clean, aux>>)
    /\ WF_vars(WeatherTimeout)
    /\ WF_vars(WeatherAborted)

----------------------------------------------------------------------------
(* The traversal engine alone.  The other variables of the page stay as
   they are before start(). *)

Idle ==
    /\ timer = NoTimer
    /\ INTERVAL_MS = DefaultIntervalMs
    /\ status = "paused"
    /\ playBtn = ""
    /\ pauseBtn = "none"
    /\ intervals = {}
    /\ inflight = <<>>
    /\ gate = "open"
    /\ ticks = 0
    /\ clean = TRUE

(* An order the page can hold for n images, with its cursor and the index
   on display. *)
Traversal(n) ==
    /\ order \in shuffle(range(n))
    /\ pos \in 0..(IF n > 0 THEN n - 1 ELSE 0)
    /\ idx = IF n > 0 THEN at(order, pos) ELSE NoIndex
    /\ img = [src |-> idx, load |-> IF n > 0 THEN "load" ELSE "",
              fetchMeta |-> <<>>, dateEl |-> NoIndex]

KeepIndexes == {<<>>} \cup { <<k>> : k \in -1..MaxOrder }

(* buildOrder(keepIndex) after the collection has changed its size: the
   order and the cursor are those of the old size. *)
InitBuild ==
    /\ Idle
    /\ count \in 0..MaxOrder
    /\ \E n \in 0..MaxOrder : Traversal(n)
    /\ aux \in [phase : {"build"}, keepIndex : KeepIndexes, built : {FALSE}]

Rebuild ==
    /\ aux.phase = "build"
    /\ ~aux.built
    /\ \E b \in buildOrder(aux.keepIndex) :
          /\ order' = b.order
          /\ pos' = b.pos
    /\ aux' = [aux EXCEPT !.built = TRUE]
    /\ UNCHANGED <<count, timer, INTERVAL_MS, status, idx, playBtn, pauseBtn,
                   intervals, inflight, img, gate, ticks, clean>>

SpecBuild == InitBuild /\ [][Rebuild]_vars

Deltas == (-MaxDelta)..MaxDelta

(* loadImage(pos + a) followed by loadImage(pos + b). *)
InitStep ==
    /\ Idle
    /\ count \in 0..MaxOrder
    /\ Traversal(count)
    /\ \E a \in Deltas, b \in Deltas :
          aux = [phase |-> "step", a |-> a, b |-> b, done |-> 0, pos0 |-> pos]

Step ==
    /\ aux.phase = "step"
    /\ aux.done < 2
    /\ LET r == loadImage(pos + (IF aux.done = 0 THEN aux.a ELSE aux.b), status)
       IN  /\ pos' = r.pos
           /\ idx' = r.idx
           /\ status' = r.status
           /\ img' = r.img
    /\ aux' = [aux EXCEPT !.done = @ + 1]
    /\ UNCHANGED <<count, order, timer, INTERVAL_MS, playBtn, pauseBtn, intervals,
                   inflight, gate, ticks, clean>>

SpecStep == InitStep /\ [][Step]_vars

(* count manual steps in one direction, the indices displayed on the way
   written down. *)
InitWalk ==
    /\ Idle
    /\ count \in 0..MaxOrder
    /\ Traversal(count)
    /\ \E d \in {-1, 1} :
          aux = [phase |-> "walk", dir |-> d, from |-> idx, prev |-> pos, seen |-> <<>>]

Walk ==
    /\ aux.phase = "walk"
    /\ Len(aux.seen) < count
    /\ \/ aux.dir = 1 /\ next_btn
       \/ aux.dir = -1 /\ prev_btn
    /\ aux' = [aux EXCEPT !.prev = pos, !.seen = Append(@, idx')]
    /\ UNCHANGED <<ticks, clean>>

SpecWalk == InitWalk /\ [][Walk]_vars

----------------------------------------------------------------------------
(* Properties *)

Values(a) == { a[i] : i \in 1..Len(a) }

Occurrences(a, v) == Cardinality({ i \in 1..Len(a) : a[i] = v })

(* C1: at every moment of the page's life the traversal order has exactly
   count entries and every index of 0..count-1 occurs in it exactly once. *)
C1_OrderIsPermutation ==
    /\ Len(order) = count
    /\ \A v \in 0..(count - 1) : Occurrences(order, v) = 1

(* A shuffled order of the largest collection, after the user has stepped
   backwards and paused. *)
C1_Witness ==
    /\ count = MaxCount
    /\ order # range(count)
    /\ aux.last = "pause"
    /\ pos = count - 1

(* C2: after buildOrder(keepIndex) the cursor is on keepIndex when
   keepIndex is a number that occurs in the new order, and is 0 when
   keepIndex is null or does not occur in it. *)
C2_CursorOnKeptIndex ==
    aux.built =>
        IF aux.keepIndex # <<>> /\ aux.keepIndex[1] \in Values(order)
        THEN at(order, pos) = aux.keepIndex[1]
        ELSE pos = 0

(* An index was kept and found away from the front of the new order. *)
C2_Witness ==
    /\ aux.built
    /\ aux.keepIndex # <<>>
    /\ pos > 0
    /\ at(order, pos) = aux.keepIndex[1]

(* C3: on an order that is not empty, loadImage(pos + a) followed by
   loadImage(pos + b) leaves the cursor and the index on display that
   loadImage(pos + a + b) leaves, the cursor is within the order after
   every step, and b = -a leads back to where the steps began. *)
C3_StepsCompose ==
    Len(order) > 0 =>
        /\ pos \in 0..(Len(order) - 1)
        /\ aux.done = 2 =>
              LET single == loadImage(aux.pos0 + aux.a + aux.b, status)
              IN  /\ pos = single.pos
                  /\ idx = single.idx
                  /\ aux.a + aux.b = 0 => pos = aux.pos0

(* Two steps done, the first one backwards past the front of the order. *)
C3_Witness ==
    /\ aux.done = 2
    /\ count = MaxOrder
    /\ aux.pos0 + aux.a < 0
    /\ aux.b > 0
    /\ pos # aux.pos0

(* C4: manual steps in one direction never display an index twice within
   count steps, after count steps they have displayed every index of
   0..count-1 and are back on the index they began on; the step after the
   last position lands on position 0 and the step before position 0 on
   the last position. *)
C4_WalkVisitsAll ==
    /\ \A i, j \in 1..Len(aux.seen) : i # j => aux.seen[i] # aux.seen[j]
    /\ aux.seen # <<>> /\ aux.dir = 1 =>
          pos = IF aux.prev = count - 1 THEN 0 ELSE aux.prev + 1
    /\ aux.seen # <<>> /\ aux.dir = -1 =>
          pos = IF aux.prev = 0 THEN count - 1 ELSE aux.prev - 1
    /\ count > 0 /\ Len(aux.seen) = count =>
          /\ Values(aux.seen) = 0..(count - 1)
          /\ idx = aux.from
          /\ aux.seen[count] = aux.from

(* A backward walk over the largest order, completed. *)
C4_Witness ==
    /\ count = MaxOrder
    /\ aux.dir = -1
    /\ Len(aux.seen) = count
    /\ idx = aux.from

ManualStepped == aux'.last \in {"next_btn", "prev_btn"}

Stride == IF aux'.last = "next_btn" THEN 1 ELSE -1

TimerUntouched ==
    /\ timer' = timer
    /\ intervals' = intervals
    /\ playBtn' = playBtn
    /\ pauseBtn' = pauseBtn

(* C5 as stated: a manual next/prev moves the cursor by +1/-1 (around the
   ends), issues no gate query and leaves the status text and the timer
   as they were, whatever the state of the controller. *)
C5_ManualStepKeepsStatus ==
    [][ManualStepped =>
            /\ pos' = (pos + Stride) % Modulus
            /\ inflight' = inflight
            /\ status' = status
            /\ TimerUntouched]_vars

(* C5, amended: a manual next/prev issues no gate query and leaves the
   timer as it was; on a collection that is not empty it moves the cursor
   by +1/-1 around the ends, displays the index there and leaves the
   status text as it was; on an empty collection it moves nothing and sets
   the status text to 'no files'. *)
C5_ManualStepFrame ==
    [][ManualStepped =>
            /\ inflight' = inflight
            /\ TimerUntouched
            /\ IF count > 0
               THEN /\ pos' = (pos + Stride) % count
                    /\ idx' = at(order, pos')
                    /\ status' = status
               ELSE /\ pos' = pos
                    /\ idx' = idx
                    /\ status' = "no files"]_vars

(* The prev button pressed on the first position while auto paused, with
   the timer running: the cursor is on the last position and the status
   text still says auto paused. *)
C5_Witness ==
    /\ aux.last = "prev_btn"
    /\ aux.was = "auto paused"
    /\ status = "auto paused"
    /\ timer # NoTimer
    /\ count = MaxCount
    /\ pos = count - 1
    /\ idx = at(order, pos)

Answered(answer) == aux'.last = "showByPos" /\ aux'.answer = answer

(* C6: when a gate query is answered load_next = false, the cursor and
   the index on display stay, the status text becomes 'auto paused' and
   the timer is left as it is, so a running interval keeps running and
   fires the next query. *)
C6_DeniedTickHolds ==
    [][Answered("closed") =>
            /\ pos' = pos
            /\ idx' = idx
            /\ status' = "auto paused"
            /\ TimerUntouched]_vars

(* A query denied while the timer runs and an image is on display. *)
C6_Witness ==
    /\ aux.last = "showByPos"
    /\ aux.answer = "closed"
    /\ aux.was = "playing"
    /\ status = "auto paused"
    /\ timer # NoTimer
    /\ intervals # {}
    /\ idx # NoIndex

(* C7: with a collection that is not empty, after the first image and k
   ticks that were all permitted, with no manual step, the index on
   display is order[k mod count], however the answers are delivered. *)
C7_PermittedTicksAdvance ==
    clean /\ inflight = <<>> /\ count > 0 => idx = at(order, ticks)

(* C8: if from some point on the gate answers load_next = true, the timer
   runs and the collection is not empty, then the status text becomes
   'playing' for good and permitted advances keep being displayed; and an
   answer other than load_next = true never moves the cursor or the
   display. *)
C8_GateResumes ==
    /\ <>[](gate = "open" /\ timer # NoTimer /\ count > 0)
          => /\ <>[](status = "playing")
             /\ []<>(aux.last = "showByPos" /\ aux.answer = "open"
                        /\ idx = at(order, pos))
    /\ [][aux'.last = "showByPos" /\ aux'.answer # "open"
            => pos' = pos /\ idx' = idx]_vars

(* A permitted answer has taken the page from 'auto paused' back to
   'playing' and displayed the next image. *)
C8_Witness ==
    /\ aux.last = "showByPos"
    /\ aux.answer = "open"
    /\ aux.was = "auto paused"
    /\ status = "playing"
    /\ timer # NoTimer
    /\ pos > 0
    /\ idx = at(order, pos)

(* C9: the status text goes from 'auto paused' to 'playing' only when a
   gate query is answered load_next = true. *)
C9_OnlyGateLeavesAutoPaused ==
    [][status = "auto paused" /\ status' = "playing" => Answered("open")]_vars

(* C10: while the page is paused (no timer), the answer to a gate query
   changes neither the cursor nor the index on display, and does not turn
   the status text into 'playing' or 'auto paused'. *)
C10_PauseIsStable ==
    [][timer = NoTimer /\ aux'.last = "showByPos"
            => /\ pos' = pos
               /\ idx' = idx
               /\ status' # status => status' \notin {"playing", "auto paused"}]_vars

(* C11: a click on the interval dropdown while a timer runs leaves exactly
   one running interval, the one `timer` names, with the period that
   INTERVAL_MS now holds; a click while no timer runs sets INTERVAL_MS at
   most: it starts nothing and leaves the status text and the buttons. *)
C11_IntervalChangeRestarts ==
    [][aux'.last = "interval" =>
            IF timer # NoTimer
            THEN /\ timer' # NoTimer
                 /\ intervals' = {[id |-> timer', ms |-> INTERVAL_MS']}
            ELSE /\ timer' = NoTimer
                 /\ intervals' = {}
                 /\ status' = status
                 /\ playBtn' = playBtn
                 /\ pauseBtn' = pauseBtn]_vars

(* Another period was chosen while the timer ran: one interval runs, with
   the new period. *)
C11_Witness ==
    /\ aux.last = "interval"
    /\ aux.answer = "changed"
    /\ timer # NoTimer
    /\ intervals = {[id |-> timer, ms |-> INTERVAL_MS]}
    /\ status = "playing"

(* C15: when a gate query fails (the fetch rejects or the status is not
   ok), the cursor, the index on display, the status text and the timer
   stay as they are and no query is issued in its place: the pending
   queries are the earlier ones without the failed one; and a tick of the
   timer issues one new query, for the position after the cursor. *)
C15_FailedQueryAbandonsTick ==
    /\ [][Answered("down") =>
              /\ pos' = pos
              /\ idx' = idx
              /\ status' = status
              /\ TimerUntouched
              /\ \E i \in 1..Len(inflight) : inflight' = Remove(inflight, i)]_vars
    /\ [][aux'.last = "next" => inflight' = Append(inflight, pos + 1)]_vars

(* A query has failed while the page was playing an image: the timer still
   runs and the status text still says playing. *)
C15_Witness ==
    /\ aux.last = "showByPos"
    /\ aux.answer = "down"
    /\ aux.was = "playing"
    /\ status = "playing"
    /\ timer # NoTimer
    /\ intervals # {}
    /\ idx # NoIndex
    /\ gate = "down"

(* C17: the page starts with its timer running; at every moment at most
   one interval runs, and one runs exactly when `timer` is set, which is
   the interval `timer` names; play sets the timer, pause clears it, the
   space key sets it when it was clear and clears it when it was set, and
   no other handler sets or clears it. *)
C17_OneTimerFollowsPlayPause ==
    /\ timer # NoTimer
    /\ [](/\ Cardinality(intervals) <= 1
          /\ intervals = IF timer # NoTimer
                         THEN {[id |-> timer, ms |-> INTERVAL_MS]}
                         ELSE {})
    /\ [][CASE aux'.last = "play"  -> timer' # NoTimer
            [] aux'.last = "pause" -> timer' = NoTimer
            [] aux'.last = "space" -> (timer' # NoTimer) = (timer = NoTimer)
            [] OTHER               -> (timer' # NoTimer) = (timer # NoTimer)]_vars

(* The space key has started the timer again after a pause, with a period
   other than the default: one interval runs. *)
C17_Witness ==
    /\ aux.last = "space"
    /\ aux.was = "paused"
    /\ timer # NoTimer
    /\ Cardinality(intervals) = 1
    /\ INTERVAL_MS # DefaultIntervalMs

(* C18: at every moment the cursor is 0 when the order is empty and within
   0..order.length-1 otherwise, and once an image has been displayed the
   index on display is order[pos]. *)
C18_CursorIsValid ==
    /\ IF Len(order) = 0 THEN pos = 0 ELSE pos \in 0..(Len(order) - 1)
    /\ idx # NoIndex => idx = at(order, pos)

(* The next button pressed on the last position of the largest collection:
   the cursor is back on the first position and its index is on display. *)
C18_Witness ==
    /\ aux.last = "next_btn"
    /\ count = MaxCount
    /\ pos = 0
    /\ idx # NoIndex
    /\ idx = at(order, 0)

(* The step answers a query that a tick issued: the query of the page load
   is the only one for position 0. *)
TickAnswered(answer) ==
    /\ Answered(answer)
    /\ \E i \in 1..Len(inflight) :
          /\ inflight[i] # 0
          /\ inflight' = Remove(inflight, i)

(* C16: when the user has stepped by hand while the query of a tick was
   pending and the query is then answered load_next = true, the page
   displays the successor of the position the user stepped to. *)
C16_AdvanceFromCurrentPosition ==
    [][aux.last \in {"next_btn", "prev_btn"} /\ TickAnswered("open") /\ count > 0 =>
            /\ pos' = (pos + 1) % count
            /\ idx' = at(order, pos')]_vars

(* C14: on an empty collection the order is empty, and every manual step
   and every answered gate query leaves the cursor on 0, displays no
   image and leaves the status text 'no files'. *)
C14_EmptyCollectionSaysNoFiles ==
    [][count = 0 /\ aux'.last \in {"next_btn", "prev_btn", "showByPos"} =>
            /\ order' = <<>>
            /\ pos' = 0
            /\ idx' = NoIndex
            /\ status' = "no files"]_vars

(* C13: whenever the image on display has loaded and no fetchMeta is
   pending, the date and the filename on display, when they are not the
   dashes, are those of the index on display. *)
C13_MetadataOfDisplayedIndex ==
    img.load = "load" /\ img.fetchMeta = <<>> /\ img.dateEl # NoIndex
        => img.dateEl = idx

(* C12: when the collection settles on a size and playback goes on (gate
   queries keep being issued), the page ends up with an order of that
   size. *)
C12_GrowthIsReconciled ==
    \A n \in 0..MaxCount :
        (<>[](aux.files = n) /\ []<>(inflight # <<>>)) => <>[](Len(order) = n)

(* A call of getCurrentWeather that has begun ends, returned or thrown,
   and its abort timer is not left armed when it has ended. *)
WeatherCallEnds ==
    /\ [](aux.call \in {"returned", "thrown"} => aux.timeout # "armed")
    /\ (aux.call \in {"fetching", "json"}) ~> (aux.call \in {"returned", "thrown"})

(* C19: every network call of the client comes to an end without an
   answer of the network: a call of getCurrentWeather ends and leaves no
   abort timer armed, and once the page is paused for good, the gate
   queries and the metadata fetches that are pending come to an end. *)
C19_RequestsComeToAnEnd ==
    /\ WeatherCallEnds
    /\ <>[](timer = NoTimer) => <>(inflight = <<>> /\ img.fetchMeta = <<>>)

====
